---- MODULE Spec2Model ----
(***************************************************************************)
(* Model of src/kpi_performance.py: the kpi_performance skill handler and  *)
(* its helper render_layout.  One invocation of the handler is modelled;   *)
(* the external collaborators (analysis engine, LLM client, layout engine) *)
(* return values chosen from small sets, or raise.                         *)
(*                                                                         *)
(* Text is a sequence of one-character strings, so that concatenation and  *)
(* strip() are computed.  An optional Python value is a record             *)
(* [isNone, text]; a table is the sequence of its rows (row identifiers).  *)
(* headline / sub_headline, param_info and followups are not modelled.     *)
(***************************************************************************)
EXTENDS Integers, Sequences, FiniteSets, TLC

\* ---------------------------------------------------------------- bounds
MaxTables == 2      \* display tables the engine may return
MaxRows == 6        \* rows of a table
MaxTopN == 7        \* maximum row counts tried on the fact limiter alone

\* ------------------------------------------------------ values and text
None == [isNone |-> TRUE, text |-> <<>>]
Str(s) == [isNone |-> FALSE, text |-> s]

\* Python truthiness of an optional string: None and "" are falsy.
Truthy(v) == ~v.isNone /\ v.text # <<>>

Whitespace == {" ", "\t", "\n"}

RECURSIVE LStrip(_)
LStrip(s) == IF s # <<>> /\ Head(s) \in Whitespace THEN LStrip(Tail(s)) ELSE s

RECURSIVE RStrip(_)
RStrip(s) ==
    IF s # <<>> /\ s[Len(s)] \in Whitespace THEN RStrip(SubSeq(s, 1, Len(s) - 1)) ELSE s

\* str.strip()
Strip(s) == RStrip(LStrip(s))

NoInsight == <<"N", "o", " ", "I", "n", "s", "i", "g", "h", "t", ".">>
NoAdditionalInfo ==
    <<"N", "o", " ", "a", "d", "d", "i", "t", "i", "o", "n", "a", "l", " ",
      "i", "n", "f", "o", ".">>

Min(a, b) == IF a < b THEN a ELSE b

\* ------------------------------------------------------- inbound parameters
LimitNs == {2, 10}                       \* limit_n: 2 as in the scenario, 10 the default
Layouts == {"layoutA", "layoutB"}        \* table_viz_layout: JSON documents (objects)

JsonText(doc) == [kind |-> "str", doc |-> doc]
JsonDict(doc) == [kind |-> "dict", doc |-> doc]

\* json.loads parses a str; given an already parsed object it raises TypeError.
JsonLoads(v) ==
    IF v.kind = "str"
    THEN [ok |-> TRUE, value |-> JsonDict(v.doc)]
    ELSE [ok |-> FALSE, value |-> v]

\* ------------------------------------------------------- what the engine returns
TableName(i) == "t" \o ToString(i)
TableIndex(n) == CHOOSE i \in 1..(MaxTables + 1) : TableName(i) = n

\* The table numbered i (0: the primary result df) with r rows.
Rows(i, r) == [j \in 1..r |-> 10 * i + j]

RowCounts == {0, 2} \cup (5..MaxRows)
DfRowCounts == {0, MaxRows}

WarningMessages == {None, Str(<<>>), Str(<<"w">>)}

FootnoteKinds == {"absent", "empty", "blank", "text"}
FootnoteText(i, kind) ==
    CASE kind = "empty" -> Str(<<>>)
      [] kind = "blank" -> Str(<<" ">>)
      [] OTHER -> Str(<<" ", TableName(i), "\n">>)

LLMResponses == {None, Str(<<>>), Str(<<"i", "n", "s">>)}

TopNOffByOne == 5 - 1

\* Number of rows the call site asks the fact limiter for (top_n=5).
TopN == 5

NoteFor(omitted) == <<"+", ToString(omitted), " ", "o", "m", "i", "t", "t", "e", "d">>

limit_facts_one_more(table, n) ==
    [facts |-> SubSeq(table, 1, Min(Len(table), n + 1)),
     note |-> IF Len(table) > n THEN Str(NoteFor(Len(table) - n)) ELSE None]

\* KPIPerformance.limit_facts_to_top_n, by its contract: the first top_n rows in
\* order, and a note stating the omitted count when rows were cut.
limit_facts_to_top_n(table, n) ==
    [facts |-> SubSeq(table, 1, Min(Len(table), n)),
     note |-> IF Len(table) > n THEN Str(NoteFor(Len(table) - n)) ELSE None]

FirstTableNoFallback(tbls, primary) == IF tbls # <<>> THEN tbls[1].data ELSE <<>>

\* first_table = list(tables.values())[0] if tables else df
FirstTable(tbls, primary) == IF tbls # <<>> THEN tbls[1].data ELSE primary

MergeWarningNoSpace(w, note) ==
    IF Truthy(note)
    THEN IF Truthy(w) THEN Str(w.text \o note.text) ELSE note
    ELSE w

\* warning_message merged with the facts limitation note
MergeWarning(w, note) ==
    IF Truthy(note)
    THEN IF Truthy(w) THEN Str(w.text \o <<" ">> \o note.text) ELSE note
    ELSE w

\* "hide_growth_warning": False if warnings else True
HideGrowthWarning(w) == IF Truthy(w) THEN FALSE ELSE TRUE

ExecSummaryNoneOnly(ins) == IF ~ins.isNone THEN ins ELSE Str(NoInsight)

\* "exec_summary": insights if insights else "No Insight."
ExecSummary(ins) == IF Truthy(ins) THEN ins ELSE Str(NoInsight)

\* dim_note = None; if name in footnotes: dim_note = footnotes.get(name)
DimNote(name, fns) == IF name \in DOMAIN fns THEN fns[name] ELSE None

FooterNoStrip(dim_note) ==
    IF Truthy(dim_note) THEN Str(dim_note.text) ELSE Str(NoAdditionalInfo)

HideFooter(dim_note) == IF Truthy(dim_note) THEN FALSE ELSE TRUE
Footer(dim_note) ==
    IF Truthy(dim_note) THEN Str(Strip(dim_note.text)) ELSE Str(NoAdditionalInfo)

\* {**general_vars, **table_vars}
MergeVars(g, t) ==
    [k \in DOMAIN g \cup DOMAIN t |-> IF k \in DOMAIN t THEN t[k] ELSE g[k]]

\* ------------------------------------------------------------------ state
VARIABLES
    pc,                     \* position of the invocation
    limit_n, table_viz_layout,                     \* inbound parameters
    df, tables, footnotes, engine_warning,         \* returned by the engine
    first_table, top_n, facts_df, facts_limitation_note,
    warning_message,        \* the merged warning passed to render_layout
    insight_template, max_response_prompt, insights, general_vars,
    idx, viz_layout, table_vars, viz_list, export_data,
    calls,                  \* external calls made so far, in order
    raised,                 \* the error an external collaborator raised
    error,                  \* the error leaving kpi_performance
    result                  \* the SkillOutput returned

vars == <<pc, limit_n, table_viz_layout, df, tables, footnotes, engine_warning,
          first_table, top_n, facts_df, facts_limitation_note, warning_message,
          insight_template, max_response_prompt, insights, general_vars,
          idx, viz_layout, table_vars, viz_list, export_data,
          calls, raised, error, result>>

NoError == [kind |-> "none", origin |-> "none"]
NoVars == [unset |-> TRUE]
NoPrompt == [template |-> "none", facts |-> <<>>]
EmptyMap == [n \in {} |-> None]
NoOutput == [returned |-> FALSE, visualizations |-> <<>>, export_data |-> EmptyMap,
             final_prompt |-> NoPrompt]

params == <<limit_n, table_viz_layout>>
engine == <<df, tables, footnotes, engine_warning>>
limiter == <<first_table, top_n, facts_df, facts_limitation_note>>
prompt == <<insight_template, max_response_prompt, insights, general_vars>>
loop == <<idx, viz_layout, table_vars, viz_list, export_data>>

Blank ==
    /\ df = <<>> /\ tables = <<>> /\ footnotes = EmptyMap /\ engine_warning = None
    /\ facts_df = <<>> /\ facts_limitation_note = None
    /\ warning_message = None
    /\ insight_template = NoPrompt /\ max_response_prompt = NoPrompt
    /\ insights = None /\ general_vars = NoVars
    /\ idx = 0 /\ table_vars = NoVars /\ viz_list = <<>> /\ export_data = EmptyMap
    /\ calls = <<>> /\ raised = NoError /\ error = NoError /\ result = NoOutput

Init ==
    /\ pc = "start"
    /\ limit_n \in LimitNs
    /\ table_viz_layout \in {JsonText(l) : l \in Layouts}
    /\ viz_layout = table_viz_layout
    /\ first_table = <<>>
    /\ top_n = TopN
    /\ Blank

\* ---------------------------------------------------------------- actions

\* kpi_performance up to the call of render_layout: the engine runs and
\* returns its tables; the facts are limited and the warning is merged.
RunAnalysis ==
    /\ pc = "start"
    /\ \E k \in 0..MaxTables, d \in DfRowCounts, w \in WarningMessages :
       \E rc \in [1..k -> RowCounts], fk \in [1..k -> FootnoteKinds] :
         LET tbls == [i \in 1..k |-> [name |-> TableName(i), data |-> Rows(i, rc[i])]]
             primary == Rows(0, d)
             fns == [n \in {TableName(i) : i \in {j \in 1..k : fk[j] # "absent"}}
                        |-> FootnoteText(TableIndex(n), fk[TableIndex(n)])]
             ft == FirstTable(tbls, primary)
             lim == limit_facts_to_top_n(ft, top_n)
         IN /\ df' = primary
            /\ tables' = tbls
            /\ footnotes' = fns
            /\ engine_warning' = w
            /\ first_table' = ft
            /\ facts_df' = lim.facts
            /\ facts_limitation_note' = lim.note
            /\ warning_message' = MergeWarning(w, lim.note)
    /\ calls' = Append(calls, "analysis")
    /\ pc' = "analysed"
    /\ UNCHANGED <<params, top_n, prompt, loop, raised, error, result>>

\* The engine raises: while the environment is set up (before the run), in
\* run_from_env, or in a later call on the engine object.
AnalysisFails ==
    /\ pc = "start"
    /\ \E stage \in {"setup", "run", "post"} :
        /\ calls' = IF stage = "setup" THEN calls ELSE Append(calls, "analysis")
        /\ raised' = [kind |-> "AnalysisError", origin |-> stage]
        /\ error' = raised'
    /\ pc' = "error"
    /\ UNCHANGED <<params, engine, limiter, warning_message, prompt, loop, result>>

\* df_notes, the engine's notes table
DfNotes == Rows(0, 1)

\* facts: one list of records per insights table, [df_notes, facts_df]
Facts == <<DfNotes, facts_df>>

\* jinja2.Template(t).render(facts=facts)
Render(t, facts) == [template |-> t, facts |-> facts]

\* render_layout up to the loop: the prompts are rendered from the facts and
\* the LLM is asked once.
CallLLM ==
    /\ pc = "analysed"
    /\ \E r \in LLMResponses :
        /\ insights' = r
        /\ general_vars' = [hide_growth_warning |-> HideGrowthWarning(warning_message),
                            exec_summary |-> ExecSummary(r),
                            warning |-> warning_message]
    /\ insight_template' = Render("insight_prompt", Facts)
    /\ max_response_prompt' = Render("max_prompt", Facts)
    /\ calls' = Append(calls, "llm")
    /\ viz_list' = <<>>
    /\ export_data' = EmptyMap
    /\ pc' = "loop"
    /\ UNCHANGED <<params, engine, limiter, warning_message, idx, viz_layout,
                   table_vars, raised, error, result>>

LLMFailsSwallowed ==
    /\ pc = "analysed"
    /\ insight_template' = Render("insight_prompt", Facts)
    /\ max_response_prompt' = Render("max_prompt", Facts)
    /\ calls' = Append(calls, "llm")
    /\ raised' = [kind |-> "LLMError", origin |-> "llm"]
    /\ insights' = None
    /\ general_vars' = [hide_growth_warning |-> HideGrowthWarning(warning_message),
                        exec_summary |-> ExecSummary(None),
                        warning |-> warning_message]
    /\ pc' = "loop"
    /\ UNCHANGED <<params, engine, limiter, warning_message, loop, error, result>>

\* ArUtils.get_llm_response raises.
LLMFails ==
    /\ pc = "analysed"
    /\ insight_template' = Render("insight_prompt", Facts)
    /\ max_response_prompt' = Render("max_prompt", Facts)
    /\ calls' = Append(calls, "llm")
    /\ raised' = [kind |-> "LLMError", origin |-> "llm"]
    /\ error' = raised'
    /\ pc' = "error"
    /\ UNCHANGED <<params, engine, limiter, warning_message, insights, general_vars,
                   loop, result>>

\* The part of one loop iteration before json.loads.
IterationVars(i) ==
    LET name == tables[i].name
        dim_note == DimNote(name, footnotes)
    IN [data |-> tables[i].data,
        hide_footer |-> HideFooter(dim_note),
        footer |-> Footer(dim_note)]

ExportWith(i) ==
    [n \in DOMAIN export_data \cup {tables[i].name} |->
        IF n = tables[i].name THEN tables[i].data ELSE export_data[n]]

\* One iteration of `for name, table in tables.items()`; `before` are the
\* external calls the iteration makes ahead of json.loads (none).
LoopBody(before) ==
    /\ pc = "loop"
    /\ idx < Len(tables)
    /\ LET i == idx + 1
           parsed == JsonLoads(viz_layout)
       IN /\ idx' = i
          /\ export_data' = ExportWith(i)
          /\ table_vars' = IterationVars(i)
          /\ IF ~parsed.ok
             THEN \* viz_layout = json.loads(viz_layout) raises TypeError
                  /\ error' = [kind |-> "TypeError", origin |-> "json.loads"]
                  /\ pc' = "error"
                  /\ calls' = calls \o before
                  /\ UNCHANGED <<viz_layout, viz_list, raised>>
             ELSE /\ viz_layout' = parsed.value
                  /\ calls' = Append(calls \o before, "layout")
                  /\ \/ /\ viz_list' = Append(viz_list,
                                [title |-> tables[i].name,
                                 layout |-> [template |-> parsed.value.doc,
                                             vars |-> MergeVars(general_vars,
                                                                IterationVars(i))]])
                        /\ UNCHANGED <<pc, raised, error>>
                     \/ /\ raised' = [kind |-> "LayoutError", origin |-> "layout"]
                        /\ error' = raised'
                        /\ pc' = "error"
                        /\ UNCHANGED viz_list
    /\ UNCHANGED <<params, engine, limiter, warning_message, prompt, result>>

LoopIterationLLMPerTable == LoopBody(<<"llm">>)

LoopIteration == LoopBody(<<>>)

\* render_layout returns and kpi_performance builds the SkillOutput.
Return ==
    /\ pc = "loop"
    /\ idx = Len(tables)
    /\ result' = [returned |-> TRUE, visualizations |-> viz_list,
                  export_data |-> export_data, final_prompt |-> max_response_prompt]
    /\ pc' = "done"
    /\ UNCHANGED <<params, engine, limiter, warning_message, prompt, loop, calls,
                   raised, error>>

Next == RunAnalysis \/ AnalysisFails \/ CallLLM \/ LLMFails \/ LoopIteration \/ Return

Spec == Init /\ [][Next]_vars

\* -------------------------------------------- the fact limiter on its own
InitLimiter ==
    /\ pc = "limiter"
    /\ limit_n = 10
    /\ table_viz_layout = JsonText("layoutA")
    /\ viz_layout = table_viz_layout
    /\ first_table \in {Rows(1, r) : r \in 0..MaxRows}
    /\ top_n \in 0..MaxTopN
    /\ Blank

LimitFacts ==
    /\ pc = "limiter"
    /\ LET lim == limit_facts_to_top_n(first_table, top_n)
       IN /\ facts_df' = lim.facts
          /\ facts_limitation_note' = lim.note
    /\ pc' = "limited"
    /\ UNCHANGED <<params, engine, first_table, top_n, warning_message, prompt, loop,
                   calls, raised, error, result>>

NextLimiter == LimitFacts

SpecLimiter == InitLimiter /\ [][NextLimiter]_vars

\* ----------------------------------------------------------------- claims
Ended == pc \in {"done", "error"}
EngineReturned == pc \in {"analysed", "loop", "done"} \/ (pc = "error" /\ error.kind # "AnalysisError")
Names == {tables[i].name : i \in 1..Len(tables)}
VarsOf(i) == viz_list[i].layout.vars

\* C1: an invocation in which no collaborator raises returns exactly one
\* visualization per display table, titled with the table names in table order
\* and rendered from the layout template of the parameters.
C1_OneVisualizationPerTable ==
    (Ended /\ raised = NoError) =>
        /\ result.returned
        /\ Len(result.visualizations) = Len(tables)
        /\ \A i \in 1..Len(result.visualizations) :
            /\ result.visualizations[i].title = tables[i].name
            /\ result.visualizations[i].layout.template = table_viz_layout.doc

\* C2 (as claimed): with limit_n = 2 and a single 5-row table the invocation
\* returns one visualization, exports the 5 rows, builds the insight prompt from
\* 2 rows only and notes exactly 3 omitted rows.
C2_FactsBoundedByLimitN ==
    (pc = "done" /\ limit_n = 2 /\ Len(tables) = 1 /\ Len(tables[1].data) = 5) =>
        /\ Len(result.visualizations) = 1
        /\ result.export_data[tables[1].name] = tables[1].data
        /\ Len(insight_template.facts[2]) = 2
        /\ facts_limitation_note = Str(NoteFor(3))

\* C2 (amended): the facts of the insight prompt are the first min(r, 5) rows of
\* the first table whatever limit_n is; with limit_n = 2 and a single 5-row
\* table the invocation returns one visualization, exports the 5 rows, builds
\* the insight prompt from all 5 rows and emits no limitation note.
C2_FactsBoundedByFive ==
    /\ pc \in {"loop", "done"} =>
        /\ Len(insight_template.facts[2]) = Min(Len(first_table), 5)
        /\ Len(insight_template.facts[2]) <= 5
        /\ Truthy(facts_limitation_note) <=> Len(first_table) > 5
    /\ (pc = "done" /\ Len(tables) = 1 /\ Len(tables[1].data) = 5) =>
        /\ Len(result.visualizations) = 1
        /\ result.export_data[tables[1].name] = tables[1].data
        /\ insight_template.facts[2] = tables[1].data
        /\ facts_limitation_note = None

C2_Witness ==
    /\ pc = "done" /\ limit_n = 2 /\ Len(tables) = 1 /\ Len(tables[1].data) = 5
    /\ Len(insight_template.facts[2]) = 5

\* C3: the fact limiter returns the first min(r, N) rows of the table in their
\* order, no note when r <= N, and when r > N a note whose omitted count is r - N.
C3_LimiterFirstRows ==
    pc = "limited" =>
        LET r == Len(first_table)
        IN /\ Len(facts_df) = Min(r, top_n)
           /\ \A i \in 1..Len(facts_df) : facts_df[i] = first_table[i]
           /\ r <= top_n => facts_limitation_note = None
           /\ r > top_n =>
                /\ Truthy(facts_limitation_note)
                /\ ToString(r - top_n) \in
                     {facts_limitation_note.text[i] :
                        i \in 1..Len(facts_limitation_note.text)}

C3_Witness ==
    /\ pc = "limited" /\ Len(first_table) = 6 /\ top_n = 4
    /\ Len(facts_df) = 4 /\ Truthy(facts_limitation_note)

\* C4: in every rendered visualization hide_growth_warning is true exactly when
\* the engine's warning is empty and the limiter emitted no note; the warning is
\* the engine warning, one space and the note when both exist, and the one that
\* exists otherwise.
C4_WarningFlagAndText ==
    \A i \in 1..Len(viz_list) :
        LET w == engine_warning
            n == facts_limitation_note
            v == VarsOf(i)
        IN /\ v.hide_growth_warning <=> (~Truthy(w) /\ ~Truthy(n))
           /\ (Truthy(w) /\ Truthy(n)) =>
                /\ ~v.warning.isNone
                /\ Len(v.warning.text) = Len(w.text) + 1 + Len(n.text)
                /\ SubSeq(v.warning.text, 1, Len(w.text)) = w.text
                /\ v.warning.text[Len(w.text) + 1] = " "
                /\ SubSeq(v.warning.text, Len(w.text) + 2, Len(v.warning.text)) = n.text
           /\ (Truthy(w) /\ ~Truthy(n)) => v.warning = w
           /\ (~Truthy(w) /\ Truthy(n)) => v.warning = n

C4_Witness ==
    /\ viz_list # <<>>
    /\ Truthy(engine_warning) /\ Truthy(facts_limitation_note)
    /\ ~VarsOf(1).hide_growth_warning

\* C5: the exec_summary of every rendered visualization is exactly "No Insight."
\* when the LLM returned an empty result, and the LLM's string otherwise.
C5_NarrativeFallback ==
    \A i \in 1..Len(viz_list) :
        /\ (insights.isNone \/ insights.text = <<>>) =>
              VarsOf(i).exec_summary = Str(NoInsight)
        /\ (~insights.isNone /\ insights.text # <<>>) =>
              VarsOf(i).exec_summary = insights

C5_Witness ==
    /\ viz_list # <<>> /\ insights = Str(<<>>)
    /\ VarsOf(1).exec_summary = Str(NoInsight)

\* C6: after an invocation in which no collaborator raises, the export maps
\* exactly the engine's table names to their full tables, and the layout engine
\* was given the full tables.
C6_ExportUntruncated ==
    (Ended /\ raised = NoError) =>
        /\ result.returned
        /\ DOMAIN result.export_data = Names
        /\ \A i \in 1..Len(tables) :
              result.export_data[tables[i].name] = tables[i].data
        /\ Len(result.visualizations) = Len(tables)
        /\ \A i \in 1..Len(result.visualizations) :
              result.visualizations[i].layout.vars.data = tables[i].data

\* C7: the external calls of an invocation are, in this order, one analysis
\* run, one LLM call and the layout calls; every layout call that returned made
\* one visualization, and a returned invocation made exactly one analysis run,
\* one LLM call and one layout call per visualization.
C7_CallsInSequence ==
    /\ \A i \in 1..Len(calls) :
          calls[i] = (IF i = 1 THEN "analysis" ELSE IF i = 2 THEN "llm" ELSE "layout")
    /\ Cardinality({i \in 1..Len(calls) : calls[i] = "layout"}) =
          Len(viz_list) + (IF raised.kind = "LayoutError" THEN 1 ELSE 0)
    /\ pc = "done" =>
          Len(calls) = 2 + Len(result.visualizations)

C7_Witness ==
    /\ Len(tables) = 2
    /\ calls = <<"analysis", "llm", "layout">>
    /\ Len(viz_list) = 1

\* C8: an error raised by a collaborator leaves kpi_performance unmodified: the
\* invocation is in the error state with that error, nothing is returned, and no
\* external call follows the failing one.
C8_ErrorsPropagate ==
    /\ [](raised # NoError =>
            /\ pc = "error"
            /\ error = raised
            /\ result = NoOutput)
    /\ [][raised # NoError => calls' = calls]_vars

C8_Witness ==
    /\ pc = "error" /\ raised.kind = "LLMError"
    /\ calls = <<"analysis", "llm">>

\* C9: when the engine returns no display table the facts are taken from the
\* primary result df, the invocation does not fail by itself, and once the LLM
\* was called it returns no visualization and an empty export.
C9_EmptyTablesUsePrimary ==
    (EngineReturned /\ tables = <<>>) =>
        /\ first_table = df
        /\ facts_df = SubSeq(df, 1, Min(Len(df), 5))
        /\ raised = NoError => pc # "error"
        /\ pc = "done" =>
              /\ calls = <<"analysis", "llm">>
              /\ result.returned
              /\ result.visualizations = <<>>
              /\ DOMAIN result.export_data = {}

C9_Witness ==
    /\ pc = "done" /\ tables = <<>> /\ df # <<>>
    /\ result.returned /\ insight_template.facts[2] # <<>>

\* C10: for the table of each iteration, hide_footer is false exactly when the
\* footnotes hold a non-empty footnote under the table's own name; the footer is
\* then that footnote without its surrounding whitespace, and otherwise it is
\* "No additional info.".
FooterOK(name, tv) ==
    LET has == name \in DOMAIN footnotes /\ ~footnotes[name].isNone
                  /\ footnotes[name].text # <<>>
    IN /\ tv.hide_footer <=> ~has
       /\ ~has => tv.footer = Str(NoAdditionalInfo)
       /\ has =>
            LET fn == footnotes[name].text
                ft == tv.footer.text
            IN /\ ~tv.footer.isNone
               /\ ft # <<>> => (ft[1] \notin Whitespace /\ ft[Len(ft)] \notin Whitespace)
               /\ \E lo \in 0..Len(fn) :
                    /\ lo + Len(ft) <= Len(fn)
                    /\ SubSeq(fn, lo + 1, lo + Len(ft)) = ft
                    /\ \A j \in 1..Len(fn) :
                          (j <= lo \/ j > lo + Len(ft)) => fn[j] \in Whitespace

C10_FooterFromOwnFootnote ==
    /\ \A i \in 1..Len(viz_list) : FooterOK(viz_list[i].title, VarsOf(i))
    /\ (pc \in {"loop", "done", "error"} /\ idx >= 1) =>
          FooterOK(tables[idx].name, table_vars)

C10_Witness ==
    /\ viz_list # <<>>
    /\ ~VarsOf(1).hide_footer
    /\ VarsOf(1).footer = Str(<<TableName(1)>>)
    /\ idx = 2 /\ table_vars.hide_footer
====
